---- MODULE Spec2Model ----
(***************************************************************************)
(* Flat_Mesh_Wrapper (wonton): the unstructured mesh topology flattener.   *)
(*                                                                         *)
(* The state is one Flat_Mesh_Wrapper instance (its private fields, named  *)
(* as in the class) together with the source mesh it was initialized from. *)
(* Entity indices are zero-based as in the code; TLA+ sequences are        *)
(* one-based, so element i of a std::vector v is v[i+1].                   *)
(*                                                                         *)
(* Three specifications share the state and the actions: Spec (every source *)
(* mesh within the bounds, initialize and finish_init), SetterSpec (proper  *)
(* sources, with the setters) and StackedSpec (3D sources of one cell more).*)
(* A fourth, GridSpec, is of Direct_Product_Mesh_Wrapper and its index/id   *)
(* conversions; it is at the end of the module.                             *)
(*                                                                         *)
(* Not modelled: the global id arrays (copied verbatim, read by no         *)
(* operation modelled here) and build_aux_entities() of the                *)
(* AuxMeshTopology base class, which finish_init calls after               *)
(* make_index_maps and which only reads the fields modelled here.          *)
(***************************************************************************)
EXTENDS Integers, Sequences, FiniteSets, TLC

\* ------------------------------------------------------------------ bounds
\* Total number of nodes of a source mesh (node indices 0..MaxNodes-1).
MaxNodes == 3
\* Largest number of cells of a source mesh.
MaxCells == 2
\* Longest node list of a 2D cell (polygon).
MaxCellLen == 3
\* Largest number of faces of a 3D source mesh.
MaxFaces == 2
\* Longest node list of a 3D face.
MaxFaceLen == 2
\* Longest face list of a 3D cell.
MaxCellFaces == 2
\* Largest number of ghost entities of one kind (cells, faces, nodes) of a
\* source mesh; the other entities of the kind are owned.
MaxGhost == 1
\* Largest number of setter calls made on one instance.
MaxSplices == 1
\* the most edge points an axis of a direct-product mesh has
MaxAxisPoints == 4

\* ----------------------------------------------------------------- helpers
RECURSIVE Flatten(_)
Flatten(seqs) ==
  IF seqs = <<>> THEN <<>> ELSE Head(seqs) \o Flatten(Tail(seqs))

RECURSIVE SumFirst(_, _)
\* cnts[1] + ... + cnts[k]
SumFirst(cnts, k) ==
  IF k = 0 THEN 0 ELSE SumFirst(cnts, k - 1) + cnts[k]

Range(s) == {s[k] : k \in DOMAIN s}

Min2(a, b) == IF a <= b THEN a ELSE b
Max2(a, b) == IF a >= b THEN a ELSE b

RECURSIVE Ascending(_)
\* iteration order of a std::set<int>: ascending
Ascending(S) ==
  IF S = {} THEN <<>>
  ELSE LET m == CHOOSE x \in S : \A y \in S : x <= y
       IN  <<m>> \o Ascending(S \ {m})

\* What a read past the end of a vector's storage yields: not a value of the
\* mesh.  No operation below performs such a read on a well-formed source.
Garbage == -99

\* v[i] of a std::vector (zero-based, unchecked)
At(v, i) == IF i >= 0 /\ i < Len(v) THEN v[i + 1] ELSE Garbage

\* the range [&v[offset], &v[offset+count])
Slice(v, offset, count) == [k \in 1..count |-> At(v, offset + k - 1)]

\* ------------------------------------------------------------ source meshes
Nodes == 0..(MaxNodes - 1)

SeqsUpTo(S, n) == UNION {[1..k -> S] : k \in 0..n}

\* node_get_coordinates(n)[j] of the source: an arbitrary fixed embedding
Coord(n, j) == 10 * n + j

SourceCoords(numNodes, dim) ==
  [k \in 1..(numNodes * dim) |-> Coord((k - 1) \div dim, (k - 1) % dim)]

\* A 2D source mesh: cells are node polygons; owned entities come first.
Mesh2D(cn, oc, on) ==
  [dim |-> 2,
   ownedCells |-> oc, ghostCells |-> Len(cn) - oc,
   ownedNodes |-> on, ghostNodes |-> MaxNodes - on,
   ownedFaces |-> 0, ghostFaces |-> 0,
   cellNodes |-> cn, cellFaces |-> <<>>, cellDirs |-> <<>>, faceNodes |-> <<>>]

\* The owned counts a source can report for `total` entities of a kind.
OwnedCounts(total) == {o \in 0..total : total - o <= MaxGhost}

\* The node lists a 2D cell can have.
Polygons == SeqsUpTo(Nodes, MaxCellLen)

RECURSIVE FirstSeen(_)
\* the elements of a sequence in order of first appearance
FirstSeen(s) ==
  IF s = <<>> THEN <<>>
  ELSE LET r == FirstSeen(SubSeq(s, 1, Len(s) - 1))
       IN  IF s[Len(s)] \in Range(r) THEN r ELSE Append(r, s[Len(s)])

\* A 3D source mesh: cells are face lists with directions, faces are node
\* lists.  The source's own cell_get_nodes lists the nodes of the cell's
\* faces in order of first appearance; its direction of face j of cell c
\* alternates between 1 and -1.
Mesh3D(fn, cf, oc, on, of) ==
  [dim |-> 3,
   ownedCells |-> oc, ghostCells |-> Len(cf) - oc,
   ownedNodes |-> on, ghostNodes |-> MaxNodes - on,
   ownedFaces |-> of, ghostFaces |-> Len(fn) - of,
   cellNodes |-> [c \in 1..Len(cf) |->
                    FirstSeen(Flatten([j \in 1..Len(cf[c]) |-> fn[cf[c][j] + 1]]))],
   cellFaces |-> cf,
   cellDirs |-> [c \in 1..Len(cf) |->
                   [j \in 1..Len(cf[c]) |-> IF (c + j) % 2 = 0 THEN 1 ELSE -1]],
   faceNodes |-> fn]

\* A sequence that lists no element twice.
NoRepeat(s) == \A i, j \in DOMAIN s : s[i] = s[j] => i = j

DistinctSeqsUpTo(S, n) == {s \in SeqsUpTo(S, n) : NoRepeat(s)}

\* The node lists a 3D face can have: a face lists a node at most once.
FaceShapes == DistinctSeqsUpTo(Nodes, MaxFaceLen)

\* The face lists a cell of a 3D mesh with nf faces can have: a cell lists a
\* face at most once.
CellShapes(nf) == DistinctSeqsUpTo(0..(nf - 1), MaxCellFaces)

\* The value of an int member the constructor leaves uninitialized.
IndeterminateInt == {-1, 0}

\* ------------------------------------------------------------------- state
VARIABLES
  input,             \* the source mesh handed to initialize
  pc,                \* "new", "initialized", "spliced", "finished" or "crashed"
  splices,           \* the number of setter calls made on the instance so far
  oob,               \* the last rebuild indexed nodeToCellTmp out of range
  dim_, numOwnedCells_, numOwnedFaces_, numOwnedNodes_,
  nodeCoords_,
  cellToNodeList_, cellNodeCounts_, cellNodeOffsets_,
  cellToFaceList_, cellToFaceDirs_, cellFaceCounts_, cellFaceOffsets_,
  faceToNodeList_, faceNodeCounts_, faceNodeOffsets_,
  nodeToCellList_, nodeCellCounts_, nodeCellOffsets_

scalars == <<dim_, numOwnedCells_, numOwnedFaces_, numOwnedNodes_>>
cellNode == <<cellToNodeList_, cellNodeCounts_, cellNodeOffsets_>>
cellFace == <<cellToFaceList_, cellToFaceDirs_, cellFaceCounts_, cellFaceOffsets_>>
faceNode == <<faceToNodeList_, faceNodeCounts_, faceNodeOffsets_>>
nodeCell == <<nodeToCellList_, nodeCellCounts_, nodeCellOffsets_>>
vars == <<input, pc, splices, oob, scalars, nodeCoords_, cellNode, cellFace, faceNode, nodeCell>>

\* ----------------------------------------------------------------- mutants
\* Each definition below is the definition it precedes with one plausible
\* slip; a property of the code that is worth stating tells the two apart.
\* --------------------------------------------------------- compute_offsets
\* slip: inclusive partial sums (the last count not left out)
compute_offsets_Inclusive(cnts) == [k \in 1..Len(cnts) |-> SumFirst(cnts, k)]

\* slip: one entry more than there are counts, the last holding the total
compute_offsets_WithTotal(cnts) == [k \in 1..(Len(cnts) + 1) |-> SumFirst(cnts, k - 1)]

\* offsets->resize(counts.size()); offsets[0] = 0; partial_sum of all counts
\* but the last into offsets[1..]
compute_offsets(cnts) == [k \in 1..Len(cnts) |-> SumFirst(cnts, k - 1)]

\* ------------------------------------------------------------------ queries
\* Each query is written over explicit arrays so that make_index_maps can
\* call it on the arrays it is rebuilding; the state-level queries follow.

\* cell_get_nodes
CellNodesOf(list, cnts, offs, c) == Slice(list, At(offs, c), At(cnts, c))

\* face_get_nodes
FaceNodesOf(dim, list, cnts, offs, f) ==
  IF dim = 2 THEN Slice(list, 2 * f, 2)
  ELSE Slice(list, At(offs, f), At(cnts, f))

cell_get_nodes(c) ==
  CellNodesOf(cellToNodeList_, cellNodeCounts_, cellNodeOffsets_, c)

\* the cfaces result of cell_get_faces_and_dirs
cell_get_faces(c) ==
  IF dim_ = 2
  THEN Slice(cellToFaceList_, At(cellNodeOffsets_, c), At(cellNodeCounts_, c))
  ELSE Slice(cellToFaceList_, At(cellFaceOffsets_, c), At(cellFaceCounts_, c))

\* the cfdirs result of cell_get_faces_and_dirs: true is reported as 1,
\* false as -1
cell_get_dirs(c) ==
  LET offset == IF dim_ = 2 THEN At(cellNodeOffsets_, c) ELSE At(cellFaceOffsets_, c)
      count  == IF dim_ = 2 THEN At(cellNodeCounts_, c) ELSE At(cellFaceCounts_, c)
      bit(i) == IF i >= 0 /\ i < Len(cellToFaceDirs_) THEN cellToFaceDirs_[i + 1] ELSE FALSE
  IN  [j \in 1..count |-> IF bit(offset + j - 1) THEN 1 ELSE -1]

face_get_nodes(f) ==
  FaceNodesOf(dim_, faceToNodeList_, faceNodeCounts_, faceNodeOffsets_, f)

num_owned_cells == numOwnedCells_
num_ghost_cells == Len(cellNodeCounts_) - numOwnedCells_
num_owned_nodes == numOwnedNodes_
num_ghost_nodes == (Len(nodeCoords_) \div dim_) - numOwnedNodes_
num_owned_faces == numOwnedFaces_

\* slip: the faces are counted by faceNodeCounts_ in 2D too, where
\* make_index_maps leaves it empty
num_ghost_faces_FromCounts == Len(faceNodeCounts_) - numOwnedFaces_

num_ghost_faces ==
  IF dim_ = 2 THEN (Len(faceToNodeList_) \div 2) - numOwnedFaces_
  ELSE Len(faceNodeCounts_) - numOwnedFaces_

\* slip: the threshold index itself is classified as owned
cell_get_type_Inclusive(c) == c <= numOwnedCells_

\* cell_get_type: TRUE for PARALLEL_OWNED, FALSE for PARALLEL_GHOST
cell_get_type(c) == c < numOwnedCells_

\* node_get_type: TRUE for PARALLEL_OWNED, FALSE for PARALLEL_GHOST
node_get_type(n) == n < numOwnedNodes_

\* slip: the ptype of a filtered call is not compared, owned cells are kept
node_get_cells_OwnedWhenFiltered(n, ptype) ==
  LET all == Slice(nodeToCellList_, At(nodeCellOffsets_, n), At(nodeCellCounts_, n))
  IN  IF ptype = "ALL" THEN all
      ELSE SelectSeq(all, LAMBDA c : cell_get_type(c))

\* node_get_cells; ptype is "ALL", "OWNED" or "GHOST"
node_get_cells(n, ptype) ==
  LET all == Slice(nodeToCellList_, At(nodeCellOffsets_, n), At(nodeCellCounts_, n))
  IN  IF ptype = "ALL" THEN all
      ELSE SelectSeq(all, LAMBDA c : cell_get_type(c) = (ptype = "OWNED"))

\* -------------------------------------------------------------------- Init
\* After the constructor: every vector is empty and the int members hold
\* indeterminate values.  dim_, numOwnedCells_ and numOwnedNodes_ are
\* assigned by initialize before anything reads them, so their start value
\* is immaterial; numOwnedFaces_ is not assigned by a 2D initialize.
Init ==
  /\ input = [dim |-> 0]
  /\ pc = "new"
  /\ splices = 0
  /\ oob = FALSE
  /\ dim_ = 0
  /\ numOwnedCells_ = 0
  /\ numOwnedNodes_ = 0
  /\ numOwnedFaces_ \in IndeterminateInt
  /\ nodeCoords_ = <<>>
  /\ cellToNodeList_ = <<>> /\ cellNodeCounts_ = <<>> /\ cellNodeOffsets_ = <<>>
  /\ cellToFaceList_ = <<>> /\ cellToFaceDirs_ = <<>>
  /\ cellFaceCounts_ = <<>> /\ cellFaceOffsets_ = <<>>
  /\ faceToNodeList_ = <<>> /\ faceNodeCounts_ = <<>> /\ faceNodeOffsets_ = <<>>
  /\ nodeToCellList_ = <<>> /\ nodeCellCounts_ = <<>> /\ nodeCellOffsets_ = <<>>

\* -------------------------------------------------------------- initialize
\* slip: initialize ends by inverting the cell-to-node relation it copied,
\* as make_index_maps does
InitializeFrom_ThenNodeCells(m) ==
  LET numNodes == m.ownedNodes + m.ghostNodes
      cnc == [c \in 1..Len(m.cellNodes) |-> Len(m.cellNodes[c])]
      cfc == [c \in 1..Len(m.cellFaces) |-> Len(m.cellFaces[c])]
      fnc == [f \in 1..Len(m.faceNodes) |-> Len(m.faceNodes[f])]
      owned(n) == {c \in 1..Len(m.cellNodes) : n \in {m.cellNodes[c][i] : i \in 1..cnc[c]}}
      perNode == [n \in 1..m.ownedNodes |->
                    [k \in 1..Cardinality(owned(n - 1)) |->
                       CHOOSE c \in owned(n - 1) :
                         Cardinality({d \in owned(n - 1) : d < c}) = k - 1]]
  IN
  /\ input' = m
  /\ pc' = "initialized"
  /\ splices' = 0
  /\ oob' = FALSE
  /\ dim_' = m.dim
  /\ numOwnedCells_' = m.ownedCells
  /\ numOwnedNodes_' = m.ownedNodes
  /\ numOwnedFaces_' = IF m.dim = 3 THEN m.ownedFaces ELSE numOwnedFaces_
  /\ cellNodeCounts_' = cnc
  /\ cellToNodeList_' = Flatten(m.cellNodes)
  /\ cellNodeOffsets_' = [k \in 1..Len(cnc) |-> SumFirst(cnc, k - 1)]
  /\ nodeCoords_' = SourceCoords(numNodes, m.dim)
  /\ cellFaceCounts_' = IF m.dim = 3 THEN cfc ELSE <<>>
  /\ cellToFaceList_' = IF m.dim = 3 THEN Flatten(m.cellFaces) ELSE <<>>
  /\ cellToFaceDirs_' = IF m.dim = 3
                        THEN [k \in 1..Len(Flatten(m.cellDirs)) |-> Flatten(m.cellDirs)[k] >= 0]
                        ELSE <<>>
  /\ faceNodeCounts_' = IF m.dim = 3 THEN fnc ELSE <<>>
  /\ faceToNodeList_' = IF m.dim = 3 THEN Flatten(m.faceNodes) ELSE <<>>
  /\ cellFaceOffsets_' = IF m.dim = 3 THEN [k \in 1..Len(cfc) |-> SumFirst(cfc, k - 1)]
                         ELSE cellFaceOffsets_
  /\ faceNodeOffsets_' = IF m.dim = 3 THEN [k \in 1..Len(fnc) |-> SumFirst(fnc, k - 1)]
                         ELSE faceNodeOffsets_
  /\ nodeCellCounts_' = [n \in 1..m.ownedNodes |-> Len(perNode[n])]
  /\ nodeToCellList_' = Flatten(perNode)
  /\ nodeCellOffsets_' = [n \in 1..m.ownedNodes |->
                            SumFirst([j \in 1..m.ownedNodes |-> Len(perNode[j])], n - 1)]

\* initialize(input): copies the counts and the relations the source
\* supplies.  reset_and_reserve clears every list it fills; it leaves the
\* offsets and the node-to-cell arrays alone.
InitializeFrom(m) ==
  LET numNodes == m.ownedNodes + m.ghostNodes
      cnc == [c \in 1..Len(m.cellNodes) |-> Len(m.cellNodes[c])]
      cfc == [c \in 1..Len(m.cellFaces) |-> Len(m.cellFaces[c])]
      fnc == [f \in 1..Len(m.faceNodes) |-> Len(m.faceNodes[f])]
  IN
  /\ input' = m
  /\ pc' = "initialized"
  /\ splices' = 0
  /\ oob' = FALSE
  /\ dim_' = m.dim
  /\ numOwnedCells_' = m.ownedCells
  /\ numOwnedNodes_' = m.ownedNodes
  /\ numOwnedFaces_' = IF m.dim = 3 THEN m.ownedFaces ELSE numOwnedFaces_
  /\ cellNodeCounts_' = cnc
  /\ cellToNodeList_' = Flatten(m.cellNodes)
  /\ cellNodeOffsets_' = compute_offsets(cnc)
  /\ nodeCoords_' = SourceCoords(numNodes, m.dim)
  /\ IF m.dim = 3
     THEN /\ cellFaceCounts_' = cfc
          /\ cellToFaceList_' = Flatten(m.cellFaces)
          /\ cellToFaceDirs_' = [k \in 1..Len(Flatten(m.cellDirs)) |->
                                   Flatten(m.cellDirs)[k] >= 0]
          /\ faceNodeCounts_' = fnc
          /\ faceToNodeList_' = Flatten(m.faceNodes)
          /\ cellFaceOffsets_' = compute_offsets(cfc)
          /\ faceNodeOffsets_' = compute_offsets(fnc)
     ELSE /\ cellFaceCounts_' = <<>>
          /\ cellToFaceList_' = <<>>
          /\ cellToFaceDirs_' = <<>>
          /\ faceNodeCounts_' = <<>>
          /\ faceToNodeList_' = <<>>
          /\ UNCHANGED <<cellFaceOffsets_, faceNodeOffsets_>>
  /\ UNCHANGED nodeCell

\* The flattened topology is built once from a source mesh snapshot; the
\* source is any 2D or 3D mesh within the bounds.
Initialize2D ==
  /\ pc = "new"
  /\ \E k \in 0..MaxCells : \E cn \in [1..k -> Polygons] :
       \E oc \in OwnedCounts(k) : \E on \in OwnedCounts(MaxNodes) :
         InitializeFrom(Mesh2D(cn, oc, on))

Initialize3D ==
  /\ pc = "new"
  /\ \E nf \in 0..MaxFaces : \E fn \in [1..nf -> FaceShapes] :
       \E k \in 0..MaxCells :
         \E cf \in [1..k -> CellShapes(nf)] :
           \E oc \in OwnedCounts(k) : \E on \in OwnedCounts(MaxNodes) :
             \E of \in OwnedCounts(nf) :
               InitializeFrom(Mesh3D(fn, cf, oc, on, of))

\* --------------------------------------------------- make_index_maps, 2D
\* slip: the face is looked up by the pair as traversed, not the canonical pair
VisitEdge2D_KeyAsTraversed(st, n0, n1) ==
  LET p0 == Min2(n0, n1)
      p1 == Max2(n0, n1)
      npair == <<n0, n1>>
      isNew == npair \notin DOMAIN st.nodeToFaceTmp
      face == IF isNew THEN st.facecount ELSE st.nodeToFaceTmp[npair]
  IN  [nodeToFaceTmp |->
         IF isNew
         THEN [k \in DOMAIN st.nodeToFaceTmp \cup {npair} |->
                 IF k = npair THEN face ELSE st.nodeToFaceTmp[k]]
         ELSE st.nodeToFaceTmp,
       faceToNodeList |->
         IF isNew THEN st.faceToNodeList \o <<p0, p1>> ELSE st.faceToNodeList,
       facecount |-> IF isNew THEN st.facecount + 1 ELSE st.facecount,
       cellToFaceList |-> Append(st.cellToFaceList, face),
       cellToFaceDirs |-> Append(st.cellToFaceDirs, n0 = p0),
       numOwnedFaces |-> st.numOwnedFaces]

\* slip: every occurrence is flagged true
VisitEdge2D_DirAlwaysTrue(st, n0, n1) ==
  LET p0 == Min2(n0, n1)
      p1 == Max2(n0, n1)
      npair == <<p0, p1>>
      isNew == npair \notin DOMAIN st.nodeToFaceTmp
      face == IF isNew THEN st.facecount ELSE st.nodeToFaceTmp[npair]
  IN  [nodeToFaceTmp |->
         IF isNew
         THEN [k \in DOMAIN st.nodeToFaceTmp \cup {npair} |->
                 IF k = npair THEN face ELSE st.nodeToFaceTmp[k]]
         ELSE st.nodeToFaceTmp,
       faceToNodeList |->
         IF isNew THEN st.faceToNodeList \o <<p0, p1>> ELSE st.faceToNodeList,
       facecount |-> IF isNew THEN st.facecount + 1 ELSE st.facecount,
       cellToFaceList |-> Append(st.cellToFaceList, face),
       cellToFaceDirs |-> Append(st.cellToFaceDirs, TRUE),
       numOwnedFaces |-> st.numOwnedFaces]

\* slip: the flag compares the trailing node
VisitEdge2D_DirOfTrailingNode(st, n0, n1) ==
  LET p0 == Min2(n0, n1)
      p1 == Max2(n0, n1)
      npair == <<p0, p1>>
      isNew == npair \notin DOMAIN st.nodeToFaceTmp
      face == IF isNew THEN st.facecount ELSE st.nodeToFaceTmp[npair]
  IN  [nodeToFaceTmp |->
         IF isNew
         THEN [k \in DOMAIN st.nodeToFaceTmp \cup {npair} |->
                 IF k = npair THEN face ELSE st.nodeToFaceTmp[k]]
         ELSE st.nodeToFaceTmp,
       faceToNodeList |->
         IF isNew THEN st.faceToNodeList \o <<p0, p1>> ELSE st.faceToNodeList,
       facecount |-> IF isNew THEN st.facecount + 1 ELSE st.facecount,
       cellToFaceList |-> Append(st.cellToFaceList, face),
       cellToFaceDirs |-> Append(st.cellToFaceDirs, n1 = p0),
       numOwnedFaces |-> st.numOwnedFaces]

\* slip: face indices are handed out from 1
VisitEdge2D_FacesNumberedFromOne(st, n0, n1) ==
  LET p0 == Min2(n0, n1)
      p1 == Max2(n0, n1)
      npair == <<p0, p1>>
      isNew == npair \notin DOMAIN st.nodeToFaceTmp
      face == IF isNew THEN st.facecount + 1 ELSE st.nodeToFaceTmp[npair]
  IN  [nodeToFaceTmp |->
         IF isNew
         THEN [k \in DOMAIN st.nodeToFaceTmp \cup {npair} |->
                 IF k = npair THEN face ELSE st.nodeToFaceTmp[k]]
         ELSE st.nodeToFaceTmp,
       faceToNodeList |->
         IF isNew THEN st.faceToNodeList \o <<p0, p1>> ELSE st.faceToNodeList,
       facecount |-> IF isNew THEN st.facecount + 1 ELSE st.facecount,
       cellToFaceList |-> Append(st.cellToFaceList, face),
       cellToFaceDirs |-> Append(st.cellToFaceDirs, n0 = p0),
       numOwnedFaces |-> st.numOwnedFaces]

\* slip: the face's nodes are stored as first traversed
VisitEdge2D_StoreAsTraversed(st, n0, n1) ==
  LET p0 == Min2(n0, n1)
      p1 == Max2(n0, n1)
      npair == <<p0, p1>>
      isNew == npair \notin DOMAIN st.nodeToFaceTmp
      face == IF isNew THEN st.facecount ELSE st.nodeToFaceTmp[npair]
  IN  [nodeToFaceTmp |->
         IF isNew
         THEN [k \in DOMAIN st.nodeToFaceTmp \cup {npair} |->
                 IF k = npair THEN face ELSE st.nodeToFaceTmp[k]]
         ELSE st.nodeToFaceTmp,
       faceToNodeList |->
         IF isNew THEN st.faceToNodeList \o <<n0, n1>> ELSE st.faceToNodeList,
       facecount |-> IF isNew THEN st.facecount + 1 ELSE st.facecount,
       cellToFaceList |-> Append(st.cellToFaceList, face),
       cellToFaceDirs |-> Append(st.cellToFaceDirs, n0 = p0),
       numOwnedFaces |-> st.numOwnedFaces]

\* One pass of the inner loop: edge i of cell c, st the arrays built so far.
\* nodeToFaceTmp maps a canonical pair <<p0, p1>> to its face index.
VisitEdge2D(st, n0, n1) ==
  LET p0 == Min2(n0, n1)
      p1 == Max2(n0, n1)
      npair == <<p0, p1>>
      isNew == npair \notin DOMAIN st.nodeToFaceTmp
      face == IF isNew THEN st.facecount ELSE st.nodeToFaceTmp[npair]
  IN  [nodeToFaceTmp |->
         IF isNew
         THEN [k \in DOMAIN st.nodeToFaceTmp \cup {npair} |->
                 IF k = npair THEN face ELSE st.nodeToFaceTmp[k]]
         ELSE st.nodeToFaceTmp,
       faceToNodeList |->
         IF isNew THEN st.faceToNodeList \o <<p0, p1>> ELSE st.faceToNodeList,
       facecount |-> IF isNew THEN st.facecount + 1 ELSE st.facecount,
       cellToFaceList |-> Append(st.cellToFaceList, face),
       cellToFaceDirs |-> Append(st.cellToFaceDirs, n0 = p0),
       numOwnedFaces |-> st.numOwnedFaces]

RECURSIVE WalkEdges2D(_, _, _, _, _)
\* for (i = i; i < count; ++i) over the edges of one cell
WalkEdges2D(st, list, offset, count, i) ==
  IF i >= count THEN st
  ELSE WalkEdges2D(VisitEdge2D(st, At(list, offset + i),
                                   At(list, offset + ((i + 1) % count))),
                   list, offset, count, i + 1)

\* if (c == numOwnedCells_ - 1) numOwnedFaces_ = facecount;  c is unsigned:
\* a negative right-hand side converts to a value no cell index reaches.
OwnedBoundary(c, numOwnedCells) == numOwnedCells - 1 >= 0 /\ c = numOwnedCells - 1

RECURSIVE WalkCells2D(_, _, _, _, _, _)
\* for (c = c; c < cellNodeCounts_.size(); ++c)
WalkCells2D(st, list, cnts, offs, numOwnedCells, c) ==
  IF c >= Len(cnts) THEN st
  ELSE LET after == WalkEdges2D(st, list, At(offs, c), At(cnts, c), 0)
           marked == IF OwnedBoundary(c, numOwnedCells)
                     THEN [after EXCEPT !.numOwnedFaces = after.facecount]
                     ELSE after
       IN  WalkCells2D(marked, list, cnts, offs, numOwnedCells, c + 1)

\* The 2D branch: cell node offsets recomputed; cell-to-face list, direction
\* flags and face-to-node list cleared and rebuilt; numOwnedFaces_ assigned
\* only when the walk passes cell numOwnedCells_ - 1.
Rebuild2D(list, cnts, numOwnedCells, numOwnedFaces) ==
  WalkCells2D([nodeToFaceTmp |-> <<>>, faceToNodeList |-> <<>>, facecount |-> 0,
               cellToFaceList |-> <<>>, cellToFaceDirs |-> <<>>,
               numOwnedFaces |-> numOwnedFaces],
              list, cnts, compute_offsets(cnts), numOwnedCells, 0)

\* --------------------------------------------------- make_index_maps, 3D
\* slip: only the first face of the cell contributes its nodes
CellNodeSet3D_FirstFaceOnly(cfl, cfc, cfo, fnl, fnc, fno, c) ==
  LET cellfaces == Slice(cfl, At(cfo, c), At(cfc, c))
  IN  UNION { Range(FaceNodesOf(3, fnl, fnc, fno, cellfaces[j]))
              : j \in DOMAIN cellfaces \cap {1} }

\* The nodes of cell c: a std::set<int> filled from the nodes of each face of
\* the cell, read out in the set's order.
CellNodeSet3D(cfl, cfc, cfo, fnl, fnc, fno, c) ==
  LET cellfaces == Slice(cfl, At(cfo, c), At(cfc, c))
  IN  UNION { Range(FaceNodesOf(3, fnl, fnc, fno, cellfaces[j])) : j \in DOMAIN cellfaces }

\* slip: an insertion-ordered container instead of std::set
CellNodes3D_FirstSeen(cfl, cfc, cfo, fnl, fnc, fno, c) ==
  LET cellfaces == Slice(cfl, At(cfo, c), At(cfc, c))
  IN  FirstSeen(Flatten([j \in DOMAIN cellfaces |->
                           FaceNodesOf(3, fnl, fnc, fno, cellfaces[j])]))

CellNodes3D(cfl, cfc, cfo, fnl, fnc, fno, c) ==
  Ascending(CellNodeSet3D(cfl, cfc, cfo, fnl, fnc, fno, c))

\* cell_get_faces_and_dirs(c) or face_get_nodes(f), called by the 3D branch,
\* reads past the end of a list: the face list of a cell runs past the end of
\* cellToFaceList_, a face index has no entry in faceNodeCounts_, or the
\* node list of a face runs past the end of faceToNodeList_.  The lists the
\* source supplies to initialize give no such read if its face indices are
\* valid; lists replaced through the setters can.
FaceReadOutOfRange(cfl, cfc, fnl, fnc) ==
  LET cfo == compute_offsets(cfc)
      fno == compute_offsets(fnc)
  IN  \E c \in 0..(Len(cfc) - 1) :
        \E j \in 0..(At(cfc, c) - 1) :
          LET k == At(cfo, c) + j
              f == At(cfl, k)
          IN  \/ k >= Len(cfl)
              \/ f < 0 \/ f >= Len(fnc)
              \/ At(fno, f) + At(fnc, f) > Len(fnl)

\* The 3D branch: face node and cell face offsets recomputed; cell node
\* counts and cell-to-node list cleared and rebuilt from the faces.
Rebuild3D(cfl, cfc, fnl, fnc) ==
  LET cfo == compute_offsets(cfc)
      fno == compute_offsets(fnc)
      perCell == [c \in 1..Len(cfc) |-> CellNodes3D(cfl, cfc, cfo, fnl, fnc, fno, c - 1)]
      cnc == [c \in 1..Len(cfc) |-> Len(perCell[c])]
  IN  [cellFaceOffsets |-> cfo, faceNodeOffsets |-> fno,
       cellNodeCounts |-> cnc, cellToNodeList |-> Flatten(perCell),
       cellNodeOffsets |-> compute_offsets(cnc)]

\* ------------------------------------------- make_index_maps, node-to-cell
\* nodeToCellTmp has numOwnedNodes_ slots; nodeToCellTmp[n].insert(c) is
\* executed for every node n of every cell without a range check.
NodeToCellOutOfRange(list, cnts, offs, numOwnedNodes) ==
  \E c \in 0..(Len(cnts) - 1) :
    \E i \in 0..(At(cnts, c) - 1) :
      LET n == At(list, At(offs, c) + i) IN n < 0 \/ n >= numOwnedNodes

\* slip: only the first node of each cell is entered
NodeToCellTmp_FirstNodeOnly(list, cnts, offs, n) ==
  {c \in 0..(Len(cnts) - 1) :
     \E i \in 0..(At(cnts, c) - 1) : i = 0 /\ At(list, At(offs, c) + i) = n}

\* slot n of nodeToCellTmp after the loop
NodeToCellTmp(list, cnts, offs, n) ==
  {c \in 0..(Len(cnts) - 1) :
     \E i \in 0..(At(cnts, c) - 1) : At(list, At(offs, c) + i) = n}

RebuildNodeCells(list, cnts, offs, numOwnedNodes) ==
  LET perNode == [n \in 1..numOwnedNodes |->
                    Ascending(NodeToCellTmp(list, cnts, offs, n - 1))]
      ncc == [n \in 1..numOwnedNodes |-> Len(perNode[n])]
  IN  [nodeCellCounts |-> ncc, nodeToCellList |-> Flatten(perNode),
       nodeCellOffsets |-> compute_offsets(ncc)]

\* ------------------------------------------------------------- finish_init
\* finish_init = make_index_maps (build_aux_entities changes no field).
\* An out-of-range nodeToCellTmp[n] is undefined behaviour: the process
\* either dies at the access, before the node-to-cell arrays are touched,
\* or the stray write lands outside the vector and the rebuild runs on.
\* The same holds for a read past the end of a list that a setter replaced.
FinishInit ==
  /\ pc \in {"initialized", "spliced", "finished"}
  /\ LET r2 == Rebuild2D(cellToNodeList_, cellNodeCounts_, numOwnedCells_, numOwnedFaces_)
         r3 == Rebuild3D(cellToFaceList_, cellFaceCounts_, faceToNodeList_, faceNodeCounts_)
         ctn == IF dim_ = 3 THEN r3.cellToNodeList ELSE cellToNodeList_
         cnc == IF dim_ = 3 THEN r3.cellNodeCounts ELSE cellNodeCounts_
         cno == compute_offsets(cnc)
         nc  == RebuildNodeCells(ctn, cnc, cno, numOwnedNodes_)
         bad == \/ NodeToCellOutOfRange(ctn, cnc, cno, numOwnedNodes_)
                \/ dim_ = 3 /\ FaceReadOutOfRange(cellToFaceList_, cellFaceCounts_,
                                                   faceToNodeList_, faceNodeCounts_)
     IN
     /\ cellToNodeList_' = ctn
     /\ cellNodeCounts_' = cnc
     /\ cellNodeOffsets_' = cno
     /\ IF dim_ = 2
        THEN /\ cellToFaceList_' = r2.cellToFaceList
             /\ cellToFaceDirs_' = r2.cellToFaceDirs
             /\ faceToNodeList_' = r2.faceToNodeList
             /\ numOwnedFaces_' = r2.numOwnedFaces
             /\ UNCHANGED <<cellFaceOffsets_, faceNodeOffsets_>>
        ELSE /\ cellFaceOffsets_' = r3.cellFaceOffsets
             /\ faceNodeOffsets_' = r3.faceNodeOffsets
             /\ UNCHANGED <<cellToFaceList_, cellToFaceDirs_, faceToNodeList_,
                            numOwnedFaces_>>
     /\ oob' = bad
     /\ \/ /\ pc' = "finished"
           /\ nodeCellCounts_' = nc.nodeCellCounts
           /\ nodeToCellList_' = nc.nodeToCellList
           /\ nodeCellOffsets_' = nc.nodeCellOffsets
        \/ /\ bad
           /\ pc' = "crashed"
           /\ UNCHANGED nodeCell
  /\ UNCHANGED <<input, splices, dim_, numOwnedCells_, numOwnedNodes_, nodeCoords_,
                 cellFaceCounts_, faceNodeCounts_>>

Next == Initialize2D \/ Initialize3D \/ FinishInit

Spec == Init /\ [][Next]_vars

\* ----------------------------------------------------------------- setters
\* Each setter assigns its argument to one member and does nothing else: no
\* check of the argument, no recomputation of counts, offsets or derived
\* lists.  A caller makes at most MaxSplices setter calls on an instance.
CanSplice == pc \in {"initialized", "spliced", "finished"} /\ splices < MaxSplices

Spliced == pc' = "spliced" /\ splices' = splices + 1

set_cell_to_node_list(cellToNodeList) ==
  /\ CanSplice /\ Spliced
  /\ cellToNodeList_' = cellToNodeList
  /\ UNCHANGED <<input, oob, scalars, nodeCoords_, cellNodeCounts_, cellNodeOffsets_,
                 cellFace, faceNode, nodeCell>>

set_cell_node_counts(cellNodeCounts) ==
  /\ CanSplice /\ Spliced
  /\ cellNodeCounts_' = cellNodeCounts
  /\ UNCHANGED <<input, oob, scalars, nodeCoords_, cellToNodeList_, cellNodeOffsets_,
                 cellFace, faceNode, nodeCell>>

set_cell_to_face_list(cellToFaceList) ==
  /\ CanSplice /\ Spliced
  /\ cellToFaceList_' = cellToFaceList
  /\ UNCHANGED <<input, oob, scalars, nodeCoords_, cellNode, cellToFaceDirs_,
                 cellFaceCounts_, cellFaceOffsets_, faceNode, nodeCell>>

set_cell_to_face_dirs(cellToFaceDirs) ==
  /\ CanSplice /\ Spliced
  /\ cellToFaceDirs_' = cellToFaceDirs
  /\ UNCHANGED <<input, oob, scalars, nodeCoords_, cellNode, cellToFaceList_,
                 cellFaceCounts_, cellFaceOffsets_, faceNode, nodeCell>>

set_cell_face_counts(cellFaceCounts) ==
  /\ CanSplice /\ Spliced
  /\ cellFaceCounts_' = cellFaceCounts
  /\ UNCHANGED <<input, oob, scalars, nodeCoords_, cellNode, cellToFaceList_,
                 cellToFaceDirs_, cellFaceOffsets_, faceNode, nodeCell>>

set_face_to_node_list(faceToNodeList) ==
  /\ CanSplice /\ Spliced
  /\ faceToNodeList_' = faceToNodeList
  /\ UNCHANGED <<input, oob, scalars, nodeCoords_, cellNode, cellFace,
                 faceNodeCounts_, faceNodeOffsets_, nodeCell>>

set_face_node_counts(faceNodeCounts) ==
  /\ CanSplice /\ Spliced
  /\ faceNodeCounts_' = faceNodeCounts
  /\ UNCHANGED <<input, oob, scalars, nodeCoords_, cellNode, cellFace,
                 faceToNodeList_, faceNodeOffsets_, nodeCell>>

set_num_owned_cells(numOwnedCells) ==
  /\ CanSplice /\ Spliced
  /\ numOwnedCells_' = numOwnedCells
  /\ UNCHANGED <<input, oob, dim_, numOwnedFaces_, numOwnedNodes_, nodeCoords_,
                 cellNode, cellFace, faceNode, nodeCell>>

set_num_owned_faces(numOwnedFaces) ==
  /\ CanSplice /\ Spliced
  /\ numOwnedFaces_' = numOwnedFaces
  /\ UNCHANGED <<input, oob, dim_, numOwnedCells_, numOwnedNodes_, nodeCoords_,
                 cellNode, cellFace, faceNode, nodeCell>>

set_num_owned_nodes(numOwnedNodes) ==
  /\ CanSplice /\ Spliced
  /\ numOwnedNodes_' = numOwnedNodes
  /\ UNCHANGED <<input, oob, dim_, numOwnedCells_, numOwnedFaces_, nodeCoords_,
                 cellNode, cellFace, faceNode, nodeCell>>

\* The owned counts a caller can pass for a kind with at most `most`
\* entities: anything from none to one more than there can be.
OwnedArgs(most) == 0..(most + 1)

SetCellToNodeList == \E v \in SeqsUpTo(Nodes, MaxCellLen) : set_cell_to_node_list(v)
SetCellNodeCounts == \E v \in SeqsUpTo(0..MaxCellLen, MaxCells) : set_cell_node_counts(v)
SetCellToFaceList == \E v \in SeqsUpTo(0..(MaxFaces - 1), MaxCellFaces) : set_cell_to_face_list(v)
SetCellToFaceDirs == \E v \in SeqsUpTo(BOOLEAN, MaxCellFaces) : set_cell_to_face_dirs(v)
SetCellFaceCounts == \E v \in SeqsUpTo(0..MaxCellFaces, MaxCells) : set_cell_face_counts(v)
SetFaceToNodeList == \E v \in SeqsUpTo(Nodes, MaxFaceLen) : set_face_to_node_list(v)
SetFaceNodeCounts == \E v \in SeqsUpTo(0..MaxFaceLen, MaxFaces) : set_face_node_counts(v)
SetNumOwnedCells == \E k \in OwnedArgs(MaxCells) : set_num_owned_cells(k)
SetNumOwnedFaces == \E k \in OwnedArgs(MaxFaces) : set_num_owned_faces(k)
SetNumOwnedNodes == \E k \in OwnedArgs(MaxNodes) : set_num_owned_nodes(k)

\* Sources without degenerate entities and with every node and face owned:
\* in 2D every cell is a polygon of MaxCellLen distinct nodes, in 3D every
\* face has MaxFaceLen distinct nodes and every cell lists every face.
ProperPolygons == {s \in Polygons : Len(s) = MaxCellLen /\ NoRepeat(s)}
ProperFaces == {s \in FaceShapes : Len(s) = MaxFaceLen}

InitializeProper2D ==
  /\ pc = "new"
  /\ \E k \in 1..MaxCells : \E cn \in [1..k -> ProperPolygons] :
       \E oc \in OwnedCounts(k) :
         InitializeFrom(Mesh2D(cn, oc, MaxNodes))

InitializeProper3D ==
  /\ pc = "new"
  /\ \E nf \in 1..MaxFaces : \E fn \in [1..nf -> ProperFaces] :
       \E k \in 1..MaxCells : \E oc \in OwnedCounts(k) :
         InitializeFrom(Mesh3D(fn, [c \in 1..k |-> [j \in 1..nf |-> j - 1]],
                               oc, MaxNodes, nf))

\* An instance initialized from a proper source, rebuilt and modified through
\* the setters in any order.
SetterNext ==
  \/ InitializeProper2D \/ InitializeProper3D \/ FinishInit
  \/ SetCellToNodeList \/ SetCellNodeCounts
  \/ SetCellToFaceList \/ SetCellToFaceDirs \/ SetCellFaceCounts
  \/ SetFaceToNodeList \/ SetFaceNodeCounts
  \/ SetNumOwnedCells \/ SetNumOwnedFaces \/ SetNumOwnedNodes

SetterSpec == Init /\ [][SetterNext]_vars

\* A 3D source of MaxCells + 1 cells over proper faces, every entity owned:
\* enough cells for one face to lie in three of them.
InitializeStacked3D ==
  /\ pc = "new"
  /\ \E nf \in 1..MaxFaces : \E fn \in [1..nf -> ProperFaces] :
       \E cf \in [1..(MaxCells + 1) -> CellShapes(nf)] :
         InitializeFrom(Mesh3D(fn, cf, MaxCells + 1, MaxNodes, nf))

StackedNext == InitializeStacked3D \/ FinishInit

StackedSpec == Init /\ [][StackedNext]_vars

\* ================================================================== claims
\* Vocabulary of the claims.  The source side is read from `input`, the
\* flattened side through the queries.
Rebuilt == pc = "finished"
Rebuilt2D == pc = "finished" /\ dim_ = 2
Rebuilt3D == pc = "finished" /\ dim_ = 3

CellIds == 0..(Len(cellNodeCounts_) - 1)
FaceIds == IF dim_ = 2 THEN 0..((Len(faceToNodeList_) \div 2) - 1)
           ELSE 0..(Len(faceNodeCounts_) - 1)
OwnedNodeIds == 0..(numOwnedNodes_ - 1)

\* the source's node polygon of cell c
SrcPolygon(c) == input.cellNodes[c + 1]
SrcCellIds == 0..(Len(input.cellNodes) - 1)
\* edge i (1-based) of the source polygon of cell c: leading and trailing node
EdgeLead(c, i) == SrcPolygon(c)[i]
EdgeTrail(c, i) == SrcPolygon(c)[(i % Len(SrcPolygon(c))) + 1]
EdgePair(c, i) == {EdgeLead(c, i), EdgeTrail(c, i)}
SrcEdgePairs(cells) == UNION { {EdgePair(c, i) : i \in DOMAIN SrcPolygon(c)} : c \in cells }

\* every face occurrence, cells in index order and positions in list order
FaceWalk == Flatten([c \in 1..Len(cellNodeCounts_) |-> cell_get_faces(c - 1)])
Iota(n) == [k \in 1..n |-> k - 1]

\* the cells whose face list holds f, and the flags and leading nodes f has there
CellsOfFace(f) == {c \in CellIds : f \in Range(cell_get_faces(c))}
DirsFrom(c, f) ==
  {cell_get_dirs(c)[i] : i \in {j \in DOMAIN cell_get_faces(c) : cell_get_faces(c)[j] = f}}
LeadsFrom(c, f) ==
  {EdgeLead(c, i) : i \in {j \in DOMAIN cell_get_faces(c) : cell_get_faces(c)[j] = f}}

\* C1: after the 2D rebuild the faces are exactly the distinct unordered
\* pairs of consecutive polygon nodes, one face index per pair, numbered
\* 0..F-1 in order of first discovery (cells in index order, edges in polygon
\* order), and position i of a cell's face list is the face of edge i.
C1_FacesAreDistinctEdges ==
  Rebuilt2D =>
    /\ Len(faceToNodeList_) % 2 = 0
    /\ {Range(face_get_nodes(f)) : f \in FaceIds} = SrcEdgePairs(SrcCellIds)
    /\ \A f, g \in FaceIds :
         Range(face_get_nodes(f)) = Range(face_get_nodes(g)) => f = g
    /\ FirstSeen(FaceWalk) = Iota(Cardinality(FaceIds))
    /\ \A c \in CellIds :
         /\ Len(cell_get_faces(c)) = Len(SrcPolygon(c))
         /\ \A i \in DOMAIN SrcPolygon(c) :
              /\ cell_get_faces(c)[i] \in FaceIds
              /\ Range(face_get_nodes(cell_get_faces(c)[i])) = EdgePair(c, i)

\* C1 witness: a rebuilt 2D mesh of two cells, the first a triangle, with a
\* face that both cells reference and a face that only one references, so
\* fewer faces than edges were produced.
C1_Witness ==
  /\ Rebuilt2D
  /\ Len(cellNodeCounts_) = 2
  /\ Cardinality(Range(cell_get_faces(0))) = 3
  /\ \E f \in FaceIds : Cardinality(CellsOfFace(f)) = 2
  /\ \E f \in FaceIds : Cardinality(CellsOfFace(f)) = 1

\* The mesh precondition of C2: every cell has at least 3 distinct nodes and
\* no edge belongs to more than two cells.
ClosedNonDegenerate ==
  /\ \A c \in SrcCellIds : Cardinality(Range(SrcPolygon(c))) >= 3
  /\ \A e \in SrcEdgePairs(SrcCellIds) :
       Cardinality({c \in SrcCellIds : e \in SrcEdgePairs({c})}) <= 2

\* the two cells traverse face f in opposite directions
OppositeTraversal(c1, c2, f) ==
  /\ Cardinality(LeadsFrom(c1, f)) = 1
  /\ Cardinality(LeadsFrom(c2, f)) = 1
  /\ LeadsFrom(c1, f) # LeadsFrom(c2, f)

OppositeFlags(c1, c2, f) ==
  \/ DirsFrom(c1, f) = {1} /\ DirsFrom(c2, f) = {-1}
  \/ DirsFrom(c1, f) = {-1} /\ DirsFrom(c2, f) = {1}

\* C2 as stated: in a closed, non-degenerate 2D mesh every face referenced by
\* two cells gets direction true from exactly one of them and false from the
\* other, and every other face is referenced by exactly one cell.
C2_Original ==
  (Rebuilt2D /\ ClosedNonDegenerate) =>
    \A f \in FaceIds :
      /\ Cardinality(CellsOfFace(f)) \in {1, 2}
      /\ \A c1, c2 \in CellsOfFace(f) : c1 # c2 => OppositeFlags(c1, c2, f)

\* C2 amended: in such a mesh every face is referenced by one or two cells,
\* and a face referenced by two cells gets opposite direction flags from them
\* exactly when the two cells traverse it in opposite directions; two cells
\* that traverse it in the same direction give it the same flag.
C2_OppositeFlagsIffOppositeTraversal ==
  (Rebuilt2D /\ ClosedNonDegenerate) =>
    \A f \in FaceIds :
      /\ Cardinality(CellsOfFace(f)) \in {1, 2}
      /\ \A c1, c2 \in CellsOfFace(f) :
           c1 # c2 =>
             /\ OppositeTraversal(c1, c2, f) => OppositeFlags(c1, c2, f)
             /\ LeadsFrom(c1, f) = LeadsFrom(c2, f) => DirsFrom(c1, f) = DirsFrom(c2, f)

\* C2 witness: a rebuilt closed, non-degenerate 2D mesh with a face that two
\* cells traverse in opposite directions.
C2_Witness ==
  /\ Rebuilt2D
  /\ ClosedNonDegenerate
  /\ \E f \in FaceIds : \E c1, c2 \in CellsOfFace(f) :
       c1 # c2 /\ OppositeTraversal(c1, c2, f)

\* a sequence of integers in strictly ascending order
StrictlyAscending(s) == \A i, j \in DOMAIN s : i < j => s[i] < s[j]

\* C3: after finish_init (2D or 3D), for every owned node n and every cell c,
\* c is in node_get_cells(n, ALL) iff n is in cell_get_nodes(c); the cells of
\* a node are listed once each, in strictly ascending cell index.
C3_NodeCellInversion ==
  Rebuilt =>
    /\ Len(nodeCellCounts_) = numOwnedNodes_
    /\ \A n \in OwnedNodeIds :
         /\ StrictlyAscending(node_get_cells(n, "ALL"))
         /\ Range(node_get_cells(n, "ALL")) \subseteq CellIds
         /\ \A c \in CellIds :
              c \in Range(node_get_cells(n, "ALL")) <=> n \in Range(cell_get_nodes(c))

\* C3 witness: a rebuilt mesh with an owned node that lies in two cells and
\* an owned node that lies in exactly one.
C3_Witness ==
  /\ Rebuilt
  /\ \E n \in OwnedNodeIds : Len(node_get_cells(n, "ALL")) = 2
  /\ \E n \in OwnedNodeIds : Len(node_get_cells(n, "ALL")) = 1

\* C4: after the 3D rebuild cell_get_nodes(c) holds, without duplicates,
\* exactly the nodes of the faces in c's face list, whatever node list the
\* source supplied for c.
C4_CellNodesAreFaceNodes ==
  Rebuilt3D =>
    \A c \in CellIds :
      /\ NoRepeat(cell_get_nodes(c))
      /\ Range(cell_get_nodes(c)) =
           UNION {Range(face_get_nodes(f)) : f \in Range(cell_get_faces(c))}

\* C4 witness: a rebuilt 3D cell with two faces that share a node, whose
\* derived node list differs from the list the source supplied.
C4_Witness ==
  /\ Rebuilt3D
  /\ \E c \in CellIds :
       /\ Len(cell_get_faces(c)) = 2
       /\ Len(cell_get_nodes(c)) = 3
       /\ cell_get_nodes(c) # input.cellNodes[c + 1]

\* C5: round trip of the supplied relations: after initialize and
\* finish_init, in 2D cell_get_nodes(c) is the source's node list of c; in 3D
\* the face list of c is the source's face list of c and face_get_nodes(f)
\* is the source's node list of f; empty lists included.
C5_RoundTrip ==
  Rebuilt =>
    /\ Len(cellNodeCounts_) = Len(input.cellNodes)
    /\ dim_ = 2 => \A c \in CellIds : cell_get_nodes(c) = input.cellNodes[c + 1]
    /\ dim_ = 3 =>
         /\ Len(cellFaceCounts_) = Len(input.cellFaces)
         /\ Len(faceNodeCounts_) = Len(input.faceNodes)
         /\ \A c \in CellIds : cell_get_faces(c) = input.cellFaces[c + 1]
         /\ \A f \in FaceIds : face_get_nodes(f) = input.faceNodes[f + 1]

\* C5 witness: a rebuilt 2D mesh whose first cell has a non-empty and whose
\* second cell has an empty node list.
C5_Witness ==
  /\ Rebuilt2D
  /\ Len(cellNodeCounts_) = 2
  /\ cell_get_nodes(0) # <<>>
  /\ cell_get_nodes(1) = <<>>

\* C5 witness in 3D is covered by the same formula; this state shows a
\* rebuilt 3D mesh with an empty face between two decoded entities.
Rebuilt3DWithEmptyFace ==
  /\ Rebuilt3D
  /\ Len(faceNodeCounts_) = 2
  /\ face_get_nodes(0) = <<>>
  /\ face_get_nodes(1) # <<>>

\* C6 as stated: after the 2D rebuild num_owned_faces() is the number of
\* distinct faces of cells 0..numOwnedCells-1, for every owned-cell count from
\* 0 to the number of cells.
C6_OwnedFaceCount ==
  Rebuilt2D =>
    num_owned_faces = Cardinality(SrcEdgePairs(0..(numOwnedCells_ - 1)))

\* the first occurrence of face f in the walk, as <<cell, position>>
FirstCellOf(f) == CHOOSE c \in CellsOfFace(f) : \A d \in CellsOfFace(f) : c <= d
FirstPosOf(f) ==
  LET c == FirstCellOf(f)
      at == {i \in DOMAIN cell_get_faces(c) : cell_get_faces(c)[i] = f}
  IN  CHOOSE i \in at : \A j \in at : i <= j

\* C7: after the 2D rebuild the direction flag of (c, i) is true iff node i
\* of c's node list is the first node stored for that face;
\* cell_get_faces_and_dirs reports true as 1 and false as -1.
C7_DirIffLeadingNodeStoredFirst ==
  Rebuilt2D =>
    \A c \in CellIds :
      /\ Len(cell_get_dirs(c)) = Len(cell_get_nodes(c))
      /\ \A i \in DOMAIN cell_get_dirs(c) :
           /\ cell_get_dirs(c)[i] \in {1, -1}
           /\ cell_get_dirs(c)[i] = 1 <=>
                cell_get_nodes(c)[i] = face_get_nodes(cell_get_faces(c)[i])[1]

\* C7 witness: a rebuilt 2D cell that has a face with flag 1 and a face with
\* flag -1.
C7_Witness ==
  /\ Rebuilt2D
  /\ \E c \in CellIds : {1, -1} \subseteq Range(cell_get_dirs(c))

\* C8 as stated: a face's two nodes are stored in the order (n0, n1) of its
\* first occurrence, and the first cell that discovers a face gets direction
\* flag true for it.
C8_Original ==
  Rebuilt2D =>
    \A f \in FaceIds :
      LET c == FirstCellOf(f)
          i == FirstPosOf(f)
      IN  /\ face_get_nodes(f) = <<EdgeLead(c, i), EdgeTrail(c, i)>>
          /\ cell_get_dirs(c)[i] = 1

\* C8 amended: a face's two nodes are stored in canonical order, smaller node
\* index first, whatever the order of the first occurrence (n0, n1); the
\* discovering cell gets direction flag true iff n0 <= n1.
C8_StoredSmallerNodeFirst ==
  Rebuilt2D =>
    \A f \in FaceIds :
      LET c == FirstCellOf(f)
          i == FirstPosOf(f)
      IN  /\ face_get_nodes(f) = <<Min2(EdgeLead(c, i), EdgeTrail(c, i)),
                                   Max2(EdgeLead(c, i), EdgeTrail(c, i))>>
          /\ cell_get_dirs(c)[i] = 1 <=> EdgeLead(c, i) <= EdgeTrail(c, i)

\* C8 witness: a rebuilt 2D mesh with a face first discovered on an edge
\* that leads with its larger node.
C8_Witness ==
  /\ Rebuilt2D
  /\ \E f \in FaceIds :
       EdgeLead(FirstCellOf(f), FirstPosOf(f)) > EdgeTrail(FirstCellOf(f), FirstPosOf(f))

\* the nodes of the faces of cell c, faces in face-list order and each face's
\* nodes in stored order
FaceNodeWalk(c) ==
  Flatten([j \in DOMAIN cell_get_faces(c) |-> face_get_nodes(cell_get_faces(c)[j])])

\* C9 as stated: in the 3D rebuild the derived node list of a cell lists the
\* nodes in order of first appearance over the cell's faces.
C9_Original ==
  Rebuilt3D => \A c \in CellIds : cell_get_nodes(c) = FirstSeen(FaceNodeWalk(c))

\* C9 amended: the derived node list of a cell lists the nodes of the cell's
\* faces in strictly ascending node index, each once.
C9_CellNodesAscending ==
  Rebuilt3D =>
    \A c \in CellIds :
      /\ StrictlyAscending(cell_get_nodes(c))
      /\ Len(cell_get_nodes(c)) = Cardinality(Range(FaceNodeWalk(c)))

\* C9 witness: a rebuilt 3D cell whose nodes first appear in an order that is
\* not ascending.
C9_Witness ==
  /\ Rebuilt3D
  /\ \E c \in CellIds :
       /\ Len(cell_get_nodes(c)) >= 2
       /\ ~StrictlyAscending(FirstSeen(FaceNodeWalk(c)))

\* a ghost node of the source occurs in a cell node list handed to the rebuild
GhostNodeInCells ==
  \E c \in SrcCellIds : \E n \in Range(SrcPolygon(c)) : n >= input.ownedNodes

\* C10 as stated: for a mesh whose ghost nodes appear in cell node lists the
\* rebuild completes, creates exactly numOwnedNodes node-to-cell entries and
\* never accesses a node-to-cell slot of a node index >= numOwnedNodes.
C10_OwnedNodesOnly ==
  (pc \in {"finished", "crashed"} /\ GhostNodeInCells) =>
    /\ pc = "finished"
    /\ ~oob
    /\ Len(nodeCellCounts_) = numOwnedNodes_

\* the (counts, offsets) pairs that compute_offsets has filled in this state
EncodedPairs ==
  (IF pc \in {"initialized", "finished"}
   THEN {<<cellNodeCounts_, cellNodeOffsets_>>} ELSE {})
  \cup (IF pc \in {"initialized", "finished"} /\ dim_ = 3
        THEN {<<cellFaceCounts_, cellFaceOffsets_>>, <<faceNodeCounts_, faceNodeOffsets_>>}
        ELSE {})
  \cup (IF pc = "finished" THEN {<<nodeCellCounts_, nodeCellOffsets_>>} ELSE {})

\* C11 as stated: compute_offsets maps N counts to N+1 offsets with
\* offsets[0] = 0 and offsets[i+1] - offsets[i] = count of entity i for all i
\* in 0..N-1; for N = 0 the result is [0].
C11_Original ==
  \A p \in EncodedPairs :
    LET cnts == p[1]
        offs == p[2]
    IN  /\ Len(offs) = Len(cnts) + 1
        /\ At(offs, 0) = 0
        /\ \A i \in 0..(Len(cnts) - 1) : At(offs, i + 1) - At(offs, i) = At(cnts, i)

\* C11 amended: compute_offsets maps N counts to N offsets, one per entity:
\* offsets[0] = 0 when N > 0 and offsets[i+1] - offsets[i] = count of entity
\* i for all i in 0..N-2; the count of the last entity is not encoded in the
\* offsets; for N = 0 the result is empty.
C11_OneOffsetPerEntity ==
  \A p \in EncodedPairs :
    LET cnts == p[1]
        offs == p[2]
    IN  /\ Len(offs) = Len(cnts)
        /\ Len(cnts) > 0 => At(offs, 0) = 0
        /\ \A i \in 0..(Len(cnts) - 2) : At(offs, i + 1) - At(offs, i) = At(cnts, i)

\* C11 witness: offsets computed for two cells with different non-zero node
\* counts.
C11_Witness ==
  /\ pc = "initialized"
  /\ Len(cellNodeCounts_) = 2
  /\ At(cellNodeCounts_, 0) > 0
  /\ At(cellNodeCounts_, 1) > 0
  /\ At(cellNodeCounts_, 0) # At(cellNodeCounts_, 1)
  /\ cellNodeOffsets_ = <<0, At(cellNodeCounts_, 0)>>

\* C12 as stated: in every state reached by initialize, the setters and
\* finish_init in any order, the owned count of each entity kind is at most
\* its total count: num_ghost_cells(), num_ghost_faces() and
\* num_ghost_nodes() are never negative.
C12_GhostCountsNotNegative ==
  pc \in {"initialized", "spliced", "finished"} =>
    /\ num_ghost_cells >= 0
    /\ num_ghost_faces >= 0
    /\ num_ghost_nodes >= 0

\* indices up to one past the largest index of a kind
CellIndices == 0..(MaxCells + 1)
NodeIndices == 0..(MaxNodes + 1)

\* C13: ownership is a threshold on the index: cell_get_type(i) is OWNED iff
\* i < num_owned_cells() and node_get_type(i) is OWNED iff
\* i < num_owned_nodes(); the thresholds are the source's owned counts after
\* initialize, and after set_num_owned_cells(k) / set_num_owned_nodes(k) the
\* classification is by k.
C13_OwnershipIsThreshold ==
  /\ [](pc \in {"initialized", "spliced", "finished"} =>
          /\ \A i \in CellIndices : cell_get_type(i) <=> i < num_owned_cells
          /\ \A i \in NodeIndices : node_get_type(i) <=> i < num_owned_nodes
          /\ splices = 0 => /\ num_owned_cells = input.ownedCells
                            /\ num_owned_nodes = input.ownedNodes)
  /\ [][\A k \in OwnedArgs(MaxCells) :
          set_num_owned_cells(k) => \A i \in CellIndices : cell_get_type(i)' <=> i < k]_vars
  /\ [][\A k \in OwnedArgs(MaxNodes) :
          set_num_owned_nodes(k) => \A i \in NodeIndices : node_get_type(i)' <=> i < k]_vars

\* C13 witness: after set_num_owned_cells a cell that the source owned is
\* classified as a ghost.
C13_Witness ==
  /\ pc = "spliced"
  /\ numOwnedCells_ < input.ownedCells
  /\ \E i \in CellIds : i < input.ownedCells /\ ~cell_get_type(i)

\* the values numOwnedFaces_ can hold when a rebuild starts: the
\* indeterminate value of a new instance, or the owned-face count of a mesh
\* the instance held before
PriorOwnedFaceCounts == IndeterminateInt \cup (0..MaxFaces)

\* C14 as stated: the state produced by finish_init is a function of the
\* current raw relations and the owned cell/node counts only: rebuilding the
\* raw relations of the finished state again, on an instance whose
\* owned-face count held any value before, gives the same derived arrays
\* (2D: cell-to-face list, direction flags, face-to-node list, owned-face
\* count; 3D: cell-to-node list and counts; both: offsets and node-to-cell).
C14_RebuildIsFunctionOfRawInput ==
  (Rebuilt /\ ~oob) =>
    /\ dim_ = 2 =>
         \A prior \in PriorOwnedFaceCounts :
           LET r2 == Rebuild2D(cellToNodeList_, cellNodeCounts_, numOwnedCells_, prior)
           IN  /\ cellToFaceList_ = r2.cellToFaceList
               /\ cellToFaceDirs_ = r2.cellToFaceDirs
               /\ faceToNodeList_ = r2.faceToNodeList
               /\ numOwnedFaces_ = r2.numOwnedFaces
    /\ dim_ = 3 =>
         LET r3 == Rebuild3D(cellToFaceList_, cellFaceCounts_, faceToNodeList_, faceNodeCounts_)
         IN  /\ cellToNodeList_ = r3.cellToNodeList
             /\ cellNodeCounts_ = r3.cellNodeCounts
             /\ cellFaceOffsets_ = r3.cellFaceOffsets
             /\ faceNodeOffsets_ = r3.faceNodeOffsets
    /\ cellNodeOffsets_ = compute_offsets(cellNodeCounts_)
    /\ LET nc == RebuildNodeCells(cellToNodeList_, cellNodeCounts_, cellNodeOffsets_,
                                  numOwnedNodes_)
       IN  /\ nodeToCellList_ = nc.nodeToCellList
           /\ nodeCellCounts_ = nc.nodeCellCounts
           /\ nodeCellOffsets_ = nc.nodeCellOffsets

\* what the relation queries return in this state, for every index of a kind
FaceIndices == 0..(MaxCells * MaxCellLen)
RelationAnswers ==
  <<[c \in CellIndices |-> <<cell_get_nodes(c), cell_get_faces(c), cell_get_dirs(c)>>],
    [f \in FaceIndices |-> face_get_nodes(f)],
    [n \in NodeIndices |-> node_get_cells(n, "ALL")]>>

\* C15 as stated: a setter does not expose the data it splices in to the
\* queries before the next rebuild: a setter call changes the result of no
\* relation query, so no query returns a result computed from the new member
\* together with the counts, offsets and derived relations of the old ones.
C15_SetterExposesNothing ==
  [][pc' = "spliced" => RelationAnswers' = RelationAnswers]_vars

\* C16 as stated: after initialize alone (no finish_init) all derived
\* relations are present: in 2D cell_get_faces_and_dirs and face_get_nodes
\* return the deduplicated faces, and in both dimensions node_get_cells
\* returns the inverted cell-to-node relation.
C16_Original ==
  pc = "initialized" =>
    /\ dim_ = 2 =>
         \A c \in CellIds : \A i \in DOMAIN SrcPolygon(c) :
           Range(face_get_nodes(cell_get_faces(c)[i])) = EdgePair(c, i)
    /\ \A n \in OwnedNodeIds : \A c \in CellIds :
         c \in Range(node_get_cells(n, "ALL")) <=> n \in Range(cell_get_nodes(c))

\* C16 amended: after initialize alone on a new instance only the relations
\* the source supplies are present (the node list of every cell; in 3D also
\* the face list of every cell and the node list of every face); the
\* node-to-cell arrays are empty and in 2D the cell-to-face list, the
\* direction flags and the face-to-node list are empty: the derived
\* relations exist only after finish_init.
C16_DerivedOnlyAfterFinishInit ==
  pc = "initialized" =>
    /\ nodeToCellList_ = <<>> /\ nodeCellCounts_ = <<>> /\ nodeCellOffsets_ = <<>>
    /\ dim_ = 2 => cellToFaceList_ = <<>> /\ cellToFaceDirs_ = <<>> /\ faceToNodeList_ = <<>>
    /\ \A c \in CellIds : cell_get_nodes(c) = input.cellNodes[c + 1]
    /\ dim_ = 3 =>
         /\ \A c \in CellIds : cell_get_faces(c) = input.cellFaces[c + 1]
         /\ \A f \in FaceIds : face_get_nodes(f) = input.faceNodes[f + 1]

\* C16 witness: an initialized, not yet rebuilt 2D mesh with a cell of three
\* distinct owned nodes, which has three faces and three node-to-cell entries
\* to derive.
C16_Witness ==
  /\ pc = "initialized"
  /\ dim_ = 2
  /\ \E c \in CellIds :
       /\ Cardinality(Range(cell_get_nodes(c))) = 3
       /\ Range(cell_get_nodes(c)) \subseteq OwnedNodeIds

\* the number of faces as the queries report it
NumFaces == num_owned_faces + num_ghost_faces

\* every face index in a cell's face list is in 0..NumFaces-1 and every face
\* index in 0..NumFaces-1 is in the face list of some cell
FaceListsSound ==
  /\ \A c \in CellIds : Range(cell_get_faces(c)) \subseteq 0..(NumFaces - 1)
  /\ \A f \in 0..(NumFaces - 1) : \E c \in CellIds : f \in Range(cell_get_faces(c))

\* the same of the face lists the 3D source supplies
SrcFaceListsSound ==
  /\ \A c \in DOMAIN input.cellFaces :
       Range(input.cellFaces[c]) \subseteq 0..(Len(input.faceNodes) - 1)
  /\ \A f \in 0..(Len(input.faceNodes) - 1) :
       \E c \in DOMAIN input.cellFaces : f \in Range(input.cellFaces[c])

\* the source reports no cell with zero nodes and no face with fewer than 2
\* nodes
NonDegenerateSource ==
  /\ \A c \in DOMAIN input.cellNodes : Len(input.cellNodes[c]) > 0
  /\ \A f \in DOMAIN input.faceNodes : Len(input.faceNodes[f]) >= 2

\* C17 as stated: after every successful construction or rebuild (2D and
\* 3D), here of a source without degenerate entities, every face index in a
\* cell's face list is a valid face index and every face index is in the
\* face list of at least one cell.
C17_Original == (Rebuilt /\ NonDegenerateSource) => FaceListsSound

\* C17 amended: after initialize and finish_init of a 2D mesh every face
\* index in a cell's face list is valid and every face is in the face list of
\* at least one cell; in 3D the face lists and the number of faces are the
\* source's, so the same holds exactly when it holds of the source mesh.
C17_FaceListsSoundAsDerivedOrSupplied ==
  Rebuilt =>
    /\ dim_ = 2 => FaceListsSound
    /\ dim_ = 3 => /\ NumFaces = Len(input.faceNodes)
                   /\ FaceListsSound <=> SrcFaceListsSound

\* C17 witness: a rebuilt 3D mesh of two faces and two cells in which every
\* face is referenced, one of them by both cells.
C17_Witness ==
  /\ Rebuilt3D
  /\ NumFaces = 2
  /\ Len(cellFaceCounts_) = 2
  /\ FaceListsSound
  /\ \E f \in FaceIds : Cardinality(CellsOfFace(f)) = 2

\* C18 as stated: if the source reports a cell with zero nodes or a face with
\* fewer than 2 nodes, construction fails with DegenerateEntity: neither
\* initialize nor finish_init completes on such a source and no topology
\* built from it is left to query.
C18_DegenerateSourceRefused ==
  pc \in {"initialized", "finished"} => NonDegenerateSource

\* C19 as stated: in 3D, if some face index occurs in the face lists of more
\* than 2 cells, construction or rebuild fails with NonManifoldFace: neither
\* initialize nor finish_init completes with such a face.
C19_NonManifoldFaceRefused ==
  (pc \in {"initialized", "finished"} /\ dim_ = 3) =>
    \A f \in FaceIds : Cardinality(CellsOfFace(f)) <= 2

\* the total number of entities of each kind, as the ghost counts take it
TotalCells == Len(cellNodeCounts_)
TotalFaces == IF dim_ = 2 THEN Len(faceToNodeList_) \div 2 ELSE Len(faceNodeCounts_)
TotalNodes == Len(nodeCoords_) \div dim_

\* C20 as stated: setting an owned count larger than the total count of that
\* entity kind fails with InvalidOwnershipCount and leaves the previous owned
\* count in place.
C20_ExcessOwnedCountRefused ==
  [][/\ \A k \in OwnedArgs(MaxCells) :
          (set_num_owned_cells(k) /\ k > TotalCells) => numOwnedCells_' = numOwnedCells_
     /\ \A k \in OwnedArgs(MaxFaces) :
          (set_num_owned_faces(k) /\ k > TotalFaces) => numOwnedFaces_' = numOwnedFaces_
     /\ \A k \in OwnedArgs(MaxNodes) :
          (set_num_owned_nodes(k) /\ k > TotalNodes) => numOwnedNodes_' = numOwnedNodes_]_vars

\* ------------------------------------------------- the reads of a query
\* v[i] is an element of v
InsideOf(v, i) == i >= 0 /\ i < Len(v)

\* every element of [&v[offset], &v[offset+count]) is an element of v
SliceInside(v, offset, count) ==
  \A k \in 0..(count - 1) : InsideOf(v, offset + k)

\* cell_get_nodes reads cellNodeOffsets_[c], cellNodeCounts_[c] and the
\* slice of cellToNodeList_ they name
ReadsInside_cell_get_nodes(c) ==
  /\ InsideOf(cellNodeOffsets_, c)
  /\ InsideOf(cellNodeCounts_, c)
  /\ SliceInside(cellToNodeList_, At(cellNodeOffsets_, c), At(cellNodeCounts_, c))

\* cell_get_faces_and_dirs reads the cell's offset and count (in 2D those of
\* the node lists) and that slice of cellToFaceList_ and of cellToFaceDirs_
ReadsInside_cell_get_faces_and_dirs(c) ==
  LET offs == IF dim_ = 2 THEN cellNodeOffsets_ ELSE cellFaceOffsets_
      cnts == IF dim_ = 2 THEN cellNodeCounts_ ELSE cellFaceCounts_
  IN  /\ InsideOf(offs, c)
      /\ InsideOf(cnts, c)
      /\ SliceInside(cellToFaceList_, At(offs, c), At(cnts, c))
      /\ SliceInside(cellToFaceDirs_, At(offs, c), At(cnts, c))

\* face_get_nodes reads faceToNodeList_[2f], [2f+1] in 2D, and in 3D the
\* face's offset and count and the slice they name
ReadsInside_face_get_nodes(f) ==
  IF dim_ = 2 THEN SliceInside(faceToNodeList_, 2 * f, 2)
  ELSE /\ InsideOf(faceNodeOffsets_, f)
       /\ InsideOf(faceNodeCounts_, f)
       /\ SliceInside(faceToNodeList_, At(faceNodeOffsets_, f), At(faceNodeCounts_, f))

\* node_get_cells reads nodeCellOffsets_[n], nodeCellCounts_[n] and the
\* slice of nodeToCellList_ they name, whatever the ptype
ReadsInside_node_get_cells(n) ==
  /\ InsideOf(nodeCellOffsets_, n)
  /\ InsideOf(nodeCellCounts_, n)
  /\ SliceInside(nodeToCellList_, At(nodeCellOffsets_, n), At(nodeCellCounts_, n))

\* node_get_coordinates reads nodeCoords_[n*dim_ + j] for j < dim_
ReadsInside_node_get_coordinates(n) ==
  SliceInside(nodeCoords_, n * dim_, dim_)

\* node_get_coordinates
node_get_coordinates(n) == Slice(nodeCoords_, n * dim_, dim_)

\* How a call of a query can end.  No query has a throw statement or an
\* error return: the call returns its result, and when one of its reads is
\* outside a vector the read is undefined, so that the call returns whatever
\* the read yields or the process dies in it.
QueryEnds(readsInside) ==
  IF readsInside THEN {"returned"} ELSE {"returned", "crashed"}

\* cell_get_type and node_get_type read no vector
Ends_cell_get_type(c) == QueryEnds(TRUE)
Ends_node_get_type(n) == QueryEnds(TRUE)
Ends_cell_get_nodes(c) == QueryEnds(ReadsInside_cell_get_nodes(c))
Ends_cell_get_faces_and_dirs(c) == QueryEnds(ReadsInside_cell_get_faces_and_dirs(c))
Ends_face_get_nodes(f) == QueryEnds(ReadsInside_face_get_nodes(f))
Ends_node_get_cells(n) == QueryEnds(ReadsInside_node_get_cells(n))
Ends_node_get_coordinates(n) == QueryEnds(ReadsInside_node_get_coordinates(n))

\* C21 as stated: every query called with an entity index >= the total count
\* of its kind fails with IndexOutOfRange at the point of the query instead
\* of returning data.  Checked of meshes with at least one cell whose
\* construction read nothing out of range.
C21_OutOfRangeIndexRefused ==
  (Rebuilt /\ ~oob /\ TotalCells > 0 /\ NonDegenerateSource) =>
    /\ \A c \in CellIndices : c >= TotalCells =>
         /\ Ends_cell_get_type(c) = {"IndexOutOfRange"}
         /\ Ends_cell_get_nodes(c) = {"IndexOutOfRange"}
         /\ Ends_cell_get_faces_and_dirs(c) = {"IndexOutOfRange"}
    /\ \A f \in FaceIndices : f >= TotalFaces =>
         Ends_face_get_nodes(f) = {"IndexOutOfRange"}
    /\ \A n \in NodeIndices : n >= TotalNodes =>
         /\ Ends_node_get_type(n) = {"IndexOutOfRange"}
         /\ Ends_node_get_cells(n) = {"IndexOutOfRange"}
         /\ Ends_node_get_coordinates(n) = {"IndexOutOfRange"}

\* the place of the first occurrence of x in s
PlaceIn(s, x) == CHOOSE i \in DOMAIN s : s[i] = x /\ \A j \in 1..(i - 1) : s[j] # x

\* part lists elements of whole, each once, in the order they have in whole
InOrderOf(part, whole) ==
  /\ Range(part) \subseteq Range(whole)
  /\ \A i, j \in DOMAIN part : i < j => PlaceIn(whole, part[i]) < PlaceIn(whole, part[j])

\* C22: for every owned node n, node_get_cells(n, OWNED) lists exactly the
\* cells of node_get_cells(n, ALL) with index < num_owned_cells(), and
\* node_get_cells(n, GHOST) exactly those with index >= num_owned_cells(),
\* both in the order of the ALL list; the two results are disjoint and
\* together hold every cell of ALL.
C22_FilterPartitionsAll ==
  (Rebuilt /\ ~oob) =>
    \A n \in OwnedNodeIds :
      LET all   == node_get_cells(n, "ALL")
          owned == node_get_cells(n, "OWNED")
          ghost == node_get_cells(n, "GHOST")
      IN  /\ Range(owned) = {c \in Range(all) : c < num_owned_cells}
          /\ Range(ghost) = {c \in Range(all) : c >= num_owned_cells}
          /\ InOrderOf(owned, all)
          /\ InOrderOf(ghost, all)
          /\ Range(owned) \cap Range(ghost) = {}
          /\ Range(owned) \cup Range(ghost) = Range(all)
          /\ Len(owned) + Len(ghost) = Len(all)

\* C22 witness: a rebuilt mesh with an owned node that is in an owned cell
\* and in a ghost cell, so that both filtered results are non-empty and
\* differ from the ALL list.
C22_Witness ==
  /\ Rebuilt
  /\ ~oob
  /\ \E n \in OwnedNodeIds :
       /\ node_get_cells(n, "ALL") = <<0, 1>>
       /\ node_get_cells(n, "OWNED") = <<0>>
       /\ node_get_cells(n, "GHOST") = <<1>>

\* C23: after initialize from a source mesh the flat mesh reports the
\* source's counts: num_owned_cells, num_ghost_cells, num_owned_nodes and
\* num_ghost_nodes are the source's values, in 3D num_owned_faces and
\* num_ghost_faces too, before and after finish_init; in 2D after
\* finish_init num_owned_faces + num_ghost_faces is the number of distinct
\* faces (unordered pairs of consecutive polygon nodes) discovered.
C23_CountsAreTheSources ==
  /\ pc \in {"initialized", "finished"} =>
       /\ num_owned_cells = input.ownedCells
       /\ num_ghost_cells = input.ghostCells
       /\ num_owned_nodes = input.ownedNodes
       /\ num_ghost_nodes = input.ghostNodes
       /\ dim_ = 3 => /\ num_owned_faces = input.ownedFaces
                      /\ num_ghost_faces = input.ghostFaces
  /\ Rebuilt2D =>
       num_owned_faces + num_ghost_faces = Cardinality(SrcEdgePairs(SrcCellIds))

\* C23 witness: a rebuilt 2D mesh with a ghost cell and a ghost node in
\* which two cells share an edge, so that fewer faces than edges are
\* counted.
C23_Witness ==
  /\ Rebuilt2D
  /\ num_owned_cells = 1
  /\ num_ghost_cells = 1
  /\ num_ghost_nodes = 1
  /\ num_owned_faces + num_ghost_faces = 3
  /\ Len(cellToNodeList_) > 3

\* a well-formed source: no degenerate entity, at least one cell, no cell
\* lists a node twice, a 2D cell has at least 3 nodes, and in 3D every face
\* index of a cell is a face and every face is in some cell
WellFormedSource ==
  /\ NonDegenerateSource
  /\ Len(input.cellNodes) > 0
  /\ \A c \in DOMAIN input.cellNodes : NoRepeat(input.cellNodes[c])
  /\ input.dim = 2 => \A c \in DOMAIN input.cellNodes : Len(input.cellNodes[c]) >= 3
  /\ input.dim = 3 => SrcFaceListsSound

\* C24 as stated: after initialize and finish_init on a well-formed mesh
\* every query called with an index below the total count of its kind reads
\* only inside the stored arrays; in particular node_get_cells for a ghost
\* node index does not index the node-to-cell counts or offsets past their
\* end.
C24_QueriesReadInside ==
  (Rebuilt /\ WellFormedSource) =>
    /\ \A c \in CellIndices : c < TotalCells =>
         /\ ReadsInside_cell_get_nodes(c)
         /\ ReadsInside_cell_get_faces_and_dirs(c)
    /\ \A f \in FaceIndices : f < TotalFaces => ReadsInside_face_get_nodes(f)
    /\ \A n \in NodeIndices : n < TotalNodes =>
         /\ ReadsInside_node_get_coordinates(n)
         /\ ReadsInside_node_get_cells(n)

\* the part of C24 about indices the rebuild has an entry for: the cell,
\* face and coordinate queries and node_get_cells of an owned node
QueriesReadInsideButGhostNodes ==
  (Rebuilt /\ ~oob /\ WellFormedSource) =>
    /\ \A c \in CellIndices : c < TotalCells =>
         /\ ReadsInside_cell_get_nodes(c)
         /\ ReadsInside_cell_get_faces_and_dirs(c)
    /\ \A f \in FaceIndices : f < TotalFaces => ReadsInside_face_get_nodes(f)
    /\ \A n \in NodeIndices : n < TotalNodes =>
         /\ ReadsInside_node_get_coordinates(n)
         /\ n < numOwnedNodes_ => ReadsInside_node_get_cells(n)

\* ================================================= Direct_Product_Mesh_Wrapper
\* The wrapper of a direct-product mesh holds a reference to the mesh and no
\* state of its own.  Under GridSpec `input` is the wrapped mesh (its
\* dimensionality and the number of edge points on each axis) together with
\* the last index/id conversion made: its template parameter D is the
\* mesh's dimensionality (the assert of both conversions), its argument and
\* its result.  The members of the flat mesh stay as constructed.

\* Direct_Product_Mesh::space_dimension and axis_num_points of mesh_
mesh_space_dimension == input.dim
mesh_axis_num_points(d) == input.points[d + 1]

axis_num_cells(d) == mesh_axis_num_points(d) - 1

RECURSIVE CellsOfAxesBelow(_)
\* count after the loop of total_num_cells has run over the axes below d
CellsOfAxesBelow(d) ==
  IF d = 0 THEN 1 ELSE CellsOfAxesBelow(d - 1) * (mesh_axis_num_points(d - 1) - 1)

total_num_cells == CellsOfAxesBelow(mesh_space_dimension)

\* slip: the axes are folded in the opposite order, last axis fastest
indices_to_cellid_LastAxisFastest(D, indices) ==
  LET id1 == indices[1]
      id2 == IF D >= 2 THEN id1 * axis_num_cells(1) + indices[2] ELSE id1
  IN  IF D = 3 THEN id2 * axis_num_cells(2) + indices[3] ELSE id2

\* indices_to_cellid<D>: the switch enters at case D and falls through to
\* case 1; indices is the IntPoint, axis d at position d + 1
indices_to_cellid(D, indices) ==
  LET id3 == IF D = 3 THEN (0 + indices[3]) * axis_num_cells(1) ELSE 0
      id2 == IF D >= 2 THEN (id3 + indices[2]) * axis_num_cells(0) ELSE id3
  IN  id2 + indices[1]

\* cellid_to_indices<D>: the same fall-through, peeling the slowest axis
\* first; the divisions are of non-negative operands
cellid_to_indices(D, id) ==
  LET denom3 == axis_num_cells(1) * axis_num_cells(0)
      index3 == IF D = 3 THEN id \div denom3 ELSE 0
      res3   == IF D = 3 THEN id - index3 * denom3 ELSE id
      denom2 == axis_num_cells(0)
      index2 == IF D >= 2 THEN res3 \div denom2 ELSE 0
      res2   == IF D >= 2 THEN res3 - index2 * denom2 ELSE res3
  IN  IF D = 3 THEN <<res2, index2, index3>>
      ELSE IF D = 2 THEN <<res2, index2>>
      ELSE <<res2>>

\* the meshes: 1 to 3 axes of 1..MaxAxisPoints edge points
Grids ==
  UNION {[dim : {D}, points : [1..D -> 1..MaxAxisPoints]] : D \in 1..3}

\* the index box and the id range of the wrapped mesh
IndexBox ==
  {idx \in [1..mesh_space_dimension -> 0..(MaxAxisPoints - 2)] :
     \A d \in 0..(mesh_space_dimension - 1) : idx[d + 1] < axis_num_cells(d)}
IdRange == 0..(total_num_cells - 1)

GridInit ==
  /\ \E g \in Grids :
       input = [dim |-> g.dim, points |-> g.points,
                call |-> "none", indices |-> <<>>, id |-> 0]
  /\ pc = "grid"
  /\ splices = 0
  /\ oob = FALSE
  /\ dim_ = 0
  /\ numOwnedCells_ = 0
  /\ numOwnedNodes_ = 0
  /\ numOwnedFaces_ = 0
  /\ nodeCoords_ = <<>>
  /\ cellToNodeList_ = <<>>
  /\ cellNodeCounts_ = <<>>
  /\ cellNodeOffsets_ = <<>>
  /\ cellToFaceList_ = <<>>
  /\ cellToFaceDirs_ = <<>>
  /\ cellFaceCounts_ = <<>>
  /\ cellFaceOffsets_ = <<>>
  /\ faceToNodeList_ = <<>>
  /\ faceNodeCounts_ = <<>>
  /\ faceNodeOffsets_ = <<>>
  /\ nodeToCellList_ = <<>>
  /\ nodeCellCounts_ = <<>>
  /\ nodeCellOffsets_ = <<>>

\* a call of indices_to_cellid<D> with the indices of a cell of the mesh
IndicesToCellid ==
  /\ pc = "grid"
  /\ \E idx \in IndexBox :
       input' = [input EXCEPT !.call = "indices_to_cellid",
                              !.indices = idx,
                              !.id = indices_to_cellid(mesh_space_dimension, idx)]
  /\ UNCHANGED <<pc, splices, oob, scalars, nodeCoords_, cellNode, cellFace, faceNode, nodeCell>>

\* a call of cellid_to_indices<D> with the id of a cell of the mesh
CellidToIndices ==
  /\ pc = "grid"
  /\ \E id \in IdRange :
       input' = [input EXCEPT !.call = "cellid_to_indices",
                              !.id = id,
                              !.indices = cellid_to_indices(mesh_space_dimension, id)]
  /\ UNCHANGED <<pc, splices, oob, scalars, nodeCoords_, cellNode, cellFace, faceNode, nodeCell>>

GridNext == IndicesToCellid \/ CellidToIndices

GridSpec == GridInit /\ [][GridNext]_vars

\* the index box moved one cell along axis d
StepAlong(idx, d) == [idx EXCEPT ![d + 1] = @ + 1]

\* the id stride of axis d: the number of cells of the axes below it
Stride(d) == CellsOfAxesBelow(d)

\* C25: indices_to_cellid and cellid_to_indices are inverse bijections
\* between the index box {0..axis_num_cells(d)-1 on each axis d < D} and the
\* id range 0..total_num_cells()-1, for D in 1..3: the id of a cell of the
\* box is in the id range and converts back to the same indices, the indices
\* of an id of the range are in the box and convert back to the same id, and
\* the first axis varies fastest: id = (k*jmax + j)*imax + i, so a step along
\* axis d adds the number of cells of the axes below d.
C25_IndexIdBijection ==
  LET D == mesh_space_dimension
      idx == input.indices
      id == input.id
      at(d) == IF d < D THEN idx[d + 1] ELSE 0
  IN  /\ input.call = "indices_to_cellid" =>
           /\ id \in IdRange
           /\ cellid_to_indices(D, id) = idx
           /\ id = (at(2) * (IF D >= 2 THEN axis_num_cells(1) ELSE 1) + at(1))
                     * (IF D >= 2 THEN axis_num_cells(0) ELSE 1) + at(0)
           /\ \A d \in 0..(D - 1) :
                StepAlong(idx, d) \in IndexBox =>
                  indices_to_cellid(D, StepAlong(idx, d)) = id + Stride(d)
      /\ input.call = "cellid_to_indices" =>
           /\ idx \in IndexBox
           /\ indices_to_cellid(D, idx) = id
      /\ input.call # "none" =>
           Cardinality(IndexBox) = Cardinality(IdRange)

\* C25 witness: on a 3D mesh of 3 x 2 x 2 cells the last cell, indices
\* (2, 1, 1), has been converted to its id 11.
C25_Witness ==
  /\ pc = "grid"
  /\ input.call = "indices_to_cellid"
  /\ input.points = <<4, 3, 3>>
  /\ input.indices = <<2, 1, 1>>
  /\ input.id = 11

====
